---------------------------- MODULE Spec2Model ----------------------------
(***************************************************************************)
(* TRON 2D (Player vs Computer), src/portfolio-os/portfolio-os/src/App.jsx *)
(* lines 933-1252: the stepped light-cycle simulation, its flood-fill AI,  *)
(* the requestAnimationFrame loop that drives it and the key / button      *)
(* handlers of the component Tron2DApp.                                    *)
(*                                                                         *)
(* Time is counted in ticks of 1/550 s, the coarsest unit in which every   *)
(* step interval lerp(0.24, 0.06, (speed-1)/11), speed in 1..12, is a      *)
(* whole number (132 - 9*(speed-1) ticks).                                 *)
(*                                                                         *)
(* The arena presets are scaled down (the shipped ones are 28x20, 36x26    *)
(* and 48x32); the start cells keep their formulas (2, rows/2|0) and       *)
(* (cols-3, rows/2|0).  The shipped presets all have an even width, which  *)
(* keeps x+y of the two agents at different parities for a whole match;    *)
(* the scaled presets have widths of both parities.                        *)
(***************************************************************************)
EXTENDS Integers, Sequences, FiniteSets, TLC

(* ----------------------------- bounds ---------------------------------- *)
(* scaled-down arena presets: S, M (the preset on mount) and L *)
ColsS == 7
RowsS == 2
ColsM == 7
RowsM == 3
ColsL == 8
RowsL == 2

(* ------------------------- program constants --------------------------- *)
SlowStep == 132
FastStep == 33
FloodCap == 600
InitialSpeed == 8

(* values the speed slider is moved to, and ticks elapsed between frames   *)
(* (one and two step intervals at the initial speed)                       *)
SpeedChoices == {InitialSpeed}
DtChoices == {69, 138}

None == "null"
Arenas == {"S", "M", "L"}
Dirs == {<<1, 0>>, <<-1, 0>>, <<0, 1>>, <<0, -1>>}

VARIABLES
  arena,        \* React state: "S" | "M" | "L"
  speed,        \* React state: 1..12
  running,      \* React state
  winner,       \* React state: None or an outcome
  world,        \* worldRef.current: [0..cols*rows-1 -> 0..2]
  p1,           \* p1Ref.current: [x, y, dir]   (human)
  p2,           \* p2Ref.current: [x, y, dir]   (computer)
  lastT,        \* lastT.current: 0, or 1 once a frame has stamped it
  accum,        \* accum.current, in ticks
  activeRef,    \* activeRef.current
  loopRunning,  \* `running` as closed over by the effect that built loop
  loopWinner,   \* `winner` as closed over by that effect
  loopSpeed,    \* `speed`  as closed over by that effect
  pc,           \* "idle", or "loop" inside the while of a frame
  ent1,         \* history: human heading at the end of the last committed step
  ent2,         \* history: computer heading at the end of the last committed step
  held1,        \* history: cells <<x, y>> the human has held in this match
  held2,        \* history: cells <<x, y>> the computer has held in this match
  sinceReset,   \* history: reset was requested and the player has not started since
  host          \* what the component has with the browser: mounted, the pending
                \* animation-frame callbacks (raf), the window keydown listeners (keys)

vars == <<arena, speed, running, winner, world, p1, p2, lastT, accum,
          activeRef, loopRunning, loopWinner, loopSpeed, pc, ent1, ent2,
          held1, held2, sinceReset, host>>

(* --------------------------- arena presets ----------------------------- *)
colsOf(a) == IF a = "S" THEN ColsS ELSE IF a = "L" THEN ColsL ELSE ColsM
rowsOf(a) == IF a = "S" THEN RowsS ELSE IF a = "L" THEN RowsL ELSE RowsM
cols == colsOf(arena)
rows == rowsOf(arena)

(* the presets as shipped; used where the size of the grid itself matters  *)
(* (the cap of the flood fill, the start cells)                            *)
shippedCols(a) == IF a = "S" THEN 28 ELSE IF a = "L" THEN 48 ELSE 36
shippedRows(a) == IF a = "S" THEN 20 ELSE IF a = "L" THEN 32 ELSE 26

idx(x, y, C) == y * C + x
(* mutant of inb: the index, not the coordinates, is tested against the    *)
(* array                                                                   *)
inbIndex(x, y, C, R) == y * C + x >= 0 /\ y * C + x < C * R
inb(x, y, C, R) == x >= 0 /\ x < C /\ y >= 0 /\ y < R
isRev(a, b) == a[1] = -b[1] /\ a[2] = -b[2]

Abs(n) == IF n < 0 THEN -n ELSE n
Min(a, b) == IF a < b THEN a ELSE b

(* lerp(a, b, t) with t = num/den; exact on the values the loop uses *)
lerp(a, b, num, den) == a + ((b - a) * num) \div den
stepTimeOf(s) == lerp(SlowStep, FastStep, s - 1, 11)

(* ------------------------ build / reset layout ------------------------- *)
InitWorld(C, R) ==
  LET mid == R \div 2
      w0 == [k \in 0..(C * R - 1) |-> 0]
      w1 == [w0 EXCEPT ![idx(2, mid, C)] = 1]
  IN [w1 EXCEPT ![idx(C - 3, mid, C)] = 2]
InitP1(R) == [x |-> 2, y |-> R \div 2, dir |-> <<1, 0>>]
(* mutant of InitP2: the computer starts one column further right *)
InitP2Off(C, R) == [x |-> C - 2, y |-> R \div 2, dir |-> <<-1, 0>>]
InitP2(C, R) == [x |-> C - 3, y |-> R \div 2, dir |-> <<-1, 0>>]

(* ------------------------------ flood fill ----------------------------- *)
(* state of one floodScore call: q = the queue (qx, qy; qe = Len(q)),      *)
(* seen = the marked indices, qs = entries dequeued, count                 *)
(* mutant of push: occupied cells are queued like free ones *)
pushThrough(st, x, y, sx, sy, w, C, R) ==
  IF x < 0 \/ x >= C \/ y < 0 \/ y >= R THEN st
  ELSE IF (y * C + x) \in st.seen THEN st
  ELSE [st EXCEPT !.q = Append(st.q, <<x, y>>), !.seen = st.seen \cup {y * C + x}]
push(st, x, y, sx, sy, w, C, R) ==
  IF x < 0 \/ x >= C \/ y < 0 \/ y >= R THEN st
  ELSE LET k == y * C + x IN
       IF k \in st.seen THEN st
       ELSE IF w[k] # 0 /\ ~(x = sx /\ y = sy) THEN st
       ELSE [st EXCEPT !.q = Append(st.q, <<x, y>>), !.seen = st.seen \cup {k}]

(* mutant of LIMIT: the cap is missing *)
LIMITUncapped(C, R) == C * R
LIMIT(C, R) == Min(C * R, FloodCap)

(* the condition and the body of the while loop of floodScore *)
floodGo(st, C, R) == st.qs < Len(st.q) /\ st.count < LIMIT(C, R)
floodBody(st, sx, sy, w, C, R) ==
  LET x == st.q[st.qs + 1][1]
      y == st.q[st.qs + 1][2]
      a == push(st, x + 1, y, sx, sy, w, C, R)
      b == push(a, x - 1, y, sx, sy, w, C, R)
      c == push(b, x, y + 1, sx, sy, w, C, R)
      d == push(c, x, y - 1, sx, sy, w, C, R)
  IN [d EXCEPT !.qs = st.qs + 1, !.count = st.count + 1]

(* the while loop, run for at most n iterations; it is called with n = C*R, *)
(* the capacity of the queue arrays (seen admits every cell once), which   *)
(* no run of the loop exceeds.  The iterations are split in halves to keep *)
(* the nesting of the evaluation logarithmic in n.                         *)
RECURSIVE floodLoop(_, _, _, _, _, _, _)
floodLoop(st, n, sx, sy, w, C, R) ==
  IF n = 0 \/ ~floodGo(st, C, R) THEN st
  ELSE IF n = 1 THEN floodBody(st, sx, sy, w, C, R)
  ELSE floodLoop(floodLoop(st, n \div 2, sx, sy, w, C, R),
                 n - (n \div 2), sx, sy, w, C, R)

(* the queue, the marks and the counters as the while loop leaves them *)
floodRun(sx, sy, w, C, R) ==
  floodLoop(push([q |-> << >>, seen |-> {}, qs |-> 0, count |-> 0], sx, sy, sx, sy, w, C, R),
            C * R, sx, sy, w, C, R)
floodCount(sx, sy, w, C, R) == floodRun(sx, sy, w, C, R).count

(* floodScore returns count*(1/(1+d*0.2)), d = |sx-C/2| + |sy-R/2|.  With  *)
(* d2 = 2d = |2sx-C| + |2sy-R| that is 10*count/(10+d2); the model keeps   *)
(* the pair.                                                               *)
floodScore(sx, sy, w, C, R) ==
  [count |-> floodCount(sx, sy, w, C, R),
   d2 |-> Abs(2 * sx - C) + Abs(2 * sy - R)]

(* ---------------------------------- AI --------------------------------- *)
(* a score s = area * straight is <<count, d2, m>>, worth                  *)
(* count*m / (2*(10+d2)), m = 21 for the straight option (1.05), else 20;  *)
(* << >> is -Infinity.                                                     *)
NegInf == << >>
ScoreNum(s) == s[1] * s[3]
ScoreDen(s) == 10 + s[2]

(* possible results of `s > bestScore`.  The code compares IEEE doubles:   *)
(* two scores that are equal as rationals but come from different operands *)
(* can round either way, so both results are admitted for them.            *)
(* mutant of Greater: the first open option is kept *)
GreaterFirst(s, b) == IF b = NegInf THEN {TRUE} ELSE {FALSE}
Greater(s, b) ==
  IF b = NegInf THEN {TRUE}
  ELSE LET l == ScoreNum(s) * ScoreDen(b)
           r == ScoreNum(b) * ScoreDen(s)
       IN IF l > r THEN {TRUE}
          ELSE IF l < r THEN {FALSE}
          ELSE IF s = b THEN {FALSE}
          ELSE {TRUE, FALSE}

aiOpts(cur) == <<cur, <<cur[2], -cur[1]>>, <<-cur[2], cur[1]>>>>

(* the for loop over opts: the set of possible <<best, bestScore>> *)
RECURSIVE aiScan(_, _, _, _, _, _, _, _)
aiScan(i, best, bestScore, cur, w, p, C, R) ==
  IF i > 3 THEN {<<best, bestScore>>}
  ELSE LET d == aiOpts(cur)[i]
           nx == p.x + d[1]
           ny == p.y + d[2]
       IN IF ~inb(nx, ny, C, R) THEN aiScan(i + 1, best, bestScore, cur, w, p, C, R)
          ELSE IF w[idx(nx, ny, C)] # 0 THEN aiScan(i + 1, best, bestScore, cur, w, p, C, R)
          ELSE LET area == floodScore(nx, ny, w, C, R)
                   straight == IF d = cur THEN 21 ELSE 20
                   s == <<area.count, area.d2, straight>>
               IN UNION { IF g THEN aiScan(i + 1, d, s, cur, w, p, C, R)
                               ELSE aiScan(i + 1, best, bestScore, cur, w, p, C, R)
                          : g \in Greater(s, bestScore) }

emergencyDirs == <<<<1, 0>>, <<-1, 0>>, <<0, 1>>, <<0, -1>>>>

(* mutant of emergency: with nothing open the scan's last direction is     *)
(* left in best                                                            *)
emergencyLast(i, cur, w, p, C, R) ==
  IF isRev(cur, <<0, -1>>) THEN <<0, 1>> ELSE <<0, -1>>
RECURSIVE emergency(_, _, _, _, _, _)
emergency(i, cur, w, p, C, R) ==
  IF i > 4 THEN cur
  ELSE LET d == emergencyDirs[i]
           nx == p.x + d[1]
           ny == p.y + d[2]
       IN IF isRev(cur, d) THEN emergency(i + 1, cur, w, p, C, R)
          ELSE IF inb(nx, ny, C, R) /\ w[idx(nx, ny, C)] = 0 THEN d
          ELSE emergency(i + 1, cur, w, p, C, R)

(* aiChoose: the set of headings it can leave in p2.dir *)
(* mutant of aiChoose: the heading is never changed *)
aiChooseKeep(w, p, C, R) == {p.dir}
aiChoose(w, p, C, R) ==
  { IF r[2] = NegInf THEN emergency(1, p.dir, w, p, C, R) ELSE r[1]
    : r \in aiScan(1, p.dir, NegInf, p.dir, w, p, C, R) }

(* --------------------- registrations with the browser ------------------ *)
(* A pending animation-frame callback is [live, ref]: live = it belongs to *)
(* the effect instance now installed, ref = its id is rafRef.current.  A   *)
(* keydown listener is TRUE while it is the onKey of that instance.        *)
Unmarked(q) == [i \in DOMAIN q |-> [q[i] EXCEPT !.ref = FALSE]]
(* rafRef.current = requestAnimationFrame(loop) *)
requestAnimationFrame(q) == Append(Unmarked(q), [live |-> TRUE, ref |-> TRUE])
NotRef(e) == ~e.ref
(* mutant of cancelAnimationFrame: the pending callback is left scheduled *)
cancelNothing(q) == q
(* cancelAnimationFrame(rafRef.current) *)
cancelAnimationFrame(q) == SelectSeq(q, NotRef)
NotLive(k) == ~k
(* window.removeEventListener("keydown", onKey), onKey that of the instance *)
removeEventListener(ks) == SelectSeq(ks, NotLive)
(* window.addEventListener("keydown", onKey) *)
addEventListener(ks) == Append(ks, TRUE)
(* what a torn-down effect instance has left behind is no longer live *)
RetiredRaf(q) == [i \in DOMAIN q |-> [q[i] EXCEPT !.live = FALSE]]
RetiredKeys(ks) == [i \in DOMAIN ks |-> FALSE]
(* the cleanup of the [cols, rows] effect *)
cleanup(h) ==
  [h EXCEPT !.raf = RetiredRaf(cancelAnimationFrame(h.raf)),
            !.keys = RetiredKeys(removeEventListener(h.keys))]
(* the body of the effect, as far as the browser is concerned *)
install(h) ==
  [h EXCEPT !.raf = requestAnimationFrame(h.raf), !.keys = addEventListener(h.keys)]
Mounted == install([mounted |-> TRUE, raf |-> << >>, keys |-> << >>])
(* a frame can run the loop of the installed instance / a key reaches its onKey *)
LoopPending == \E i \in DOMAIN host.raf : host.raf[i].live
OnKeyBound == \E i \in DOMAIN host.keys : host.keys[i]
(* the queue after the pending callback of the installed loop has been     *)
(* taken off and the loop has re-armed itself on entry                     *)
Rearmed(q) ==
  LET i == CHOOSE j \in DOMAIN q : q[j].live
  IN requestAnimationFrame([j \in 1..(Len(q) - 1) |-> IF j < i THEN q[j] ELSE q[j + 1]])

(* ------------------------------- Init ---------------------------------- *)
(* state after the first render and its effect: arena "M", speed 8, not    *)
(* running, no winner; the loop built by the effect closes over these.     *)
Init ==
  /\ arena = "M"
  /\ speed = InitialSpeed
  /\ running = FALSE
  /\ winner = None
  /\ world = InitWorld(ColsM, RowsM)
  /\ p1 = InitP1(RowsM)
  /\ p2 = InitP2(ColsM, RowsM)
  /\ lastT = 0
  /\ accum = 0
  /\ activeRef = FALSE
  /\ loopRunning = FALSE
  /\ loopWinner = None
  /\ loopSpeed = InitialSpeed
  /\ pc = "idle"
  /\ ent1 = <<1, 0>>
  /\ ent2 = <<-1, 0>>
  /\ held1 = {<<2, RowsM \div 2>>}
  /\ held2 = {<<ColsM - 3, RowsM \div 2>>}
  /\ sinceReset = FALSE
  /\ host = Mounted

uiVars == <<arena, speed, running, winner>>
matchVars == <<world, p1, p2, ent1, ent2, held1, held2>>
clockVars == <<lastT, accum>>
closureVars == <<loopRunning, loopWinner, loopSpeed, host>>

(* ------------------------------ stepOnce ------------------------------- *)
cand(p, d) == [x |-> p.x + d[1], y |-> p.y + d[2]]

(* mutants of collides: the grid wraps around / a trail is no wall *)
collidesWrap(n, w, C, R) == w[idx(n.x % C, n.y % R, C)] # 0
collidesOobOnly(n, w, C, R) == ~inb(n.x, n.y, C, R)
(* mutant: only the bounds and the human's trail are tested *)
collidesHumanTrailOnly(n, w, C, R) ==
  ~inb(n.x, n.y, C, R) \/ w[idx(n.x, n.y, C)] = 1
collides(n, w, C, R) == IF ~inb(n.x, n.y, C, R) THEN TRUE ELSE w[idx(n.x, n.y, C)] # 0

(* mutant of headOn: the same-cell rule is missing *)
headOnOff(n1, n2, c1, c2) == FALSE
headOn(n1, n2, c1, c2) == ~c1 /\ ~c2 /\ n1.x = n2.x /\ n1.y = n2.y

(* mutant of outcomeOf: the two single-winner outcomes are swapped *)
outcomeSwapped(c1, c2) == IF c1 /\ c2 THEN "Draw" ELSE IF c1 THEN "You win!" ELSE "Computer wins"
outcomeOf(c1, c2) == IF c1 /\ c2 THEN "Draw" ELSE IF c2 THEN "You win!" ELSE "Computer wins"

(* mutant of commit: the computer's cell is not marked *)
commitHumanOnly(w, n1, n2, C) == [w EXCEPT ![idx(n1.x, n1.y, C)] = 1]
(* mutant of commit: the owners are swapped *)
commitSwapped(w, n1, n2, C) == [w EXCEPT ![idx(n1.x, n1.y, C)] = 2, ![idx(n2.x, n2.y, C)] = 1]
commit(w, n1, n2, C) == [w EXCEPT ![idx(n1.x, n1.y, C)] = 1, ![idx(n2.x, n2.y, C)] = 2]

(* the grid aiChoose reads: worldRef.current as it is when stepOnce begins *)
(* mutant: the human's move is already marked *)
aiViewAfterMove(w, p, C, R) ==
  IF inb(p.x + p.dir[1], p.y + p.dir[2], C, R)
  THEN [w EXCEPT ![idx(p.x + p.dir[1], p.y + p.dir[2], C)] = 1]
  ELSE w
aiView(w, p, C, R) == w

(* playSfx?.(cue): the host's sound trigger, called through optional        *)
(* chaining.  Absent, the call is skipped; present, it starts an async     *)
(* function that touches only the audio context.  Either way the handler   *)
(* goes on: the value says whether the statements around the call take     *)
(* effect.                                                                 *)
(* mutant: the trigger is called unconditionally, so a missing one aborts  *)
(* the handler                                                             *)
playSfxRequired(present, cue) == present
playSfx(present, cue) == TRUE

(* `if (c1 || c2)`: the step ends the match and returns before the commit  *)
(* mutant: the step is given up only when both agents collide              *)
abortsOnBoth(c1, c2) == c1 /\ c2
aborts(c1, c2) == c1 \/ c2

(* stepOnce after aiChoose has left d2 in p2.dir, on a C x R grid *)
resolve(d2, present, C, R) ==
    LET n1 == cand(p1, p1.dir)
        n2 == cand(p2, d2)
        i1 == collides(n1, world, C, R)
        i2 == collides(n2, world, C, R)
        h  == headOn(n1, n2, i1, i2)
        c1 == i1 \/ h
        c2 == i2 \/ h
    IN IF aborts(c1, c2)
       THEN /\ running' = FALSE
            /\ winner' = outcomeOf(c1, c2)
            /\ playSfx(present, "boom")
            /\ p2' = [p2 EXCEPT !.dir = d2]
            /\ UNCHANGED <<world, p1, ent1, ent2, held1, held2>>
       ELSE /\ p1' = [p1 EXCEPT !.x = n1.x, !.y = n1.y]
            /\ p2' = [x |-> n2.x, y |-> n2.y, dir |-> d2]
            /\ world' = commit(world, n1, n2, C)
            /\ ent1' = p1.dir
            /\ ent2' = d2
            /\ held1' = held1 \cup {<<n1.x, n1.y>>}
            /\ held2' = held2 \cup {<<n2.x, n2.y>>}
            /\ UNCHANGED <<running, winner>>

(* stepOnce in a component that was or was not given the sound trigger *)
stepOnceSfx(present) ==
  \E d2 \in aiChoose(aiView(world, p1, cols, rows), p2, cols, rows) :
    resolve(d2, present, cols, rows)

(* the desktop always injects playSfx into the window's content *)
stepOnce == stepOnceSfx(TRUE)

(* ------------------------------- loop ---------------------------------- *)
(* one requestAnimationFrame callback; el = ticks since the previous one.  *)
(* The body of its while loop is LoopStep; while pc = "loop" nothing else  *)
(* runs (the callback runs to completion).                                 *)
(* dt = lastT.current ? (now - lastT.current) : 0, with el the time since *)
(* the previous frame                                                     *)
(* mutant: the first frame is charged like any other *)
dtCharged(last, el) == el
dtOf(last, el) == IF last # 0 THEN el ELSE 0

Loop(el) ==
  /\ pc = "idle"
  /\ LoopPending
  /\ host' = [host EXCEPT !.raf = Rearmed(host.raf)]
  /\ lastT' = 1
  /\ LET dt == dtOf(lastT, el)
         stepTime == stepTimeOf(loopSpeed)
     IN IF loopRunning /\ loopWinner = None
        THEN /\ accum' = accum + dt
             /\ pc' = IF accum + dt >= stepTime THEN "loop" ELSE "idle"
        ELSE UNCHANGED <<accum, pc>>
  /\ UNCHANGED <<uiVars, matchVars, activeRef, loopRunning, loopWinner, loopSpeed,
                  sinceReset>>

LoopStepSfx(present) ==
  /\ pc = "loop"
  /\ LET stepTime == stepTimeOf(loopSpeed)
     IN /\ accum' = accum - stepTime
        /\ pc' = IF accum - stepTime >= stepTime THEN "loop" ELSE "idle"
  /\ stepOnceSfx(present)
  /\ UNCHANGED <<arena, speed, lastT, activeRef, closureVars, sinceReset>>

LoopStep == LoopStepSfx(TRUE)

(* ------------------------------- reset --------------------------------- *)
resetSfx(present) ==
  /\ world' = InitWorld(cols, rows)
  /\ p1' = InitP1(rows)
  /\ p2' = InitP2(cols, rows)
  /\ ent1' = <<1, 0>>
  /\ ent2' = <<-1, 0>>
  /\ held1' = {<<2, rows \div 2>>}
  /\ held2' = {<<cols - 3, rows \div 2>>}
  /\ lastT' = 0
  /\ accum' = 0
  /\ winner' = None
  /\ running' = FALSE
  /\ sinceReset' = TRUE
  /\ playSfx(present, "open")
  /\ UNCHANGED <<arena, speed, activeRef, closureVars, pc>>

reset == resetSfx(TRUE)

ResetButton == pc = "idle" /\ host.mounted /\ reset

(* ------------------------------- onKey --------------------------------- *)
(* mutant of ArrowKey: the reverse check is missing *)
ArrowKeyUnchecked(d) ==
  /\ pc = "idle"
  /\ OnKeyBound
  /\ activeRef
  /\ p1' = [p1 EXCEPT !.dir = d]
  /\ UNCHANGED <<uiVars, world, p2, ent1, ent2, held1, held2, clockVars, activeRef,
                  closureVars, pc, sinceReset>>
ArrowKey(d) ==
  /\ pc = "idle"
  /\ OnKeyBound
  /\ activeRef
  /\ p1' = IF ~isRev(p1.dir, d) THEN [p1 EXCEPT !.dir = d] ELSE p1
  /\ UNCHANGED <<uiVars, world, p2, ent1, ent2, held1, held2, clockVars, activeRef,
                  closureVars, pc, sinceReset>>

SpaceKey ==
  /\ pc = "idle"
  /\ OnKeyBound
  /\ activeRef
  /\ running' = ~running
  /\ sinceReset' = (sinceReset /\ running)
  /\ UNCHANGED <<arena, speed, winner, matchVars, clockVars, activeRef, closureVars, pc>>

(* mutant of EnterKey: the capture flag is not consulted *)
EnterKeyUnscoped == pc = "idle" /\ OnKeyBound /\ reset
EnterKey == pc = "idle" /\ OnKeyBound /\ activeRef /\ reset

(* --------------------------- HUD controls ------------------------------ *)
StartPauseSfx(present) ==
  /\ pc = "idle"
  /\ host.mounted
  /\ winner' = None
  /\ running' = ~running
  /\ sinceReset' = (sinceReset /\ running)
  /\ playSfx(present, "menu")
  /\ UNCHANGED <<arena, speed, matchVars, clockVars, activeRef, closureVars, pc>>

StartPause == StartPauseSfx(TRUE)

SetSpeed(s) ==
  /\ pc = "idle"
  /\ host.mounted
  /\ speed' = s
  /\ UNCHANGED <<arena, running, winner, matchVars, clockVars, activeRef, closureVars,
                  pc, sinceReset>>

(* arena select: cols/rows change, so the effect is torn down and re-run;  *)
(* the new loop closes over the running, winner and speed of this render.  *)
SetArena(a) ==
  /\ pc = "idle"
  /\ host.mounted
  /\ a # arena
  /\ host' = install(cleanup(host))
  /\ arena' = a
  /\ world' = InitWorld(colsOf(a), rowsOf(a))
  /\ p1' = InitP1(rowsOf(a))
  /\ p2' = InitP2(colsOf(a), rowsOf(a))
  /\ ent1' = <<1, 0>>
  /\ ent2' = <<-1, 0>>
  /\ held1' = {<<2, rowsOf(a) \div 2>>}
  /\ held2' = {<<colsOf(a) - 3, rowsOf(a) \div 2>>}
  /\ lastT' = 0
  /\ accum' = 0
  /\ loopRunning' = running
  /\ loopWinner' = winner
  /\ loopSpeed' = speed
  /\ UNCHANGED <<speed, running, winner, activeRef, pc, sinceReset>>

(* ------------------------ canvas wrapper pointer ----------------------- *)
MouseEnter ==
  /\ pc = "idle"
  /\ host.mounted
  /\ activeRef' = TRUE
  /\ UNCHANGED <<uiVars, matchVars, clockVars, closureVars, pc, sinceReset>>

MouseLeave ==
  /\ pc = "idle"
  /\ host.mounted
  /\ activeRef' = FALSE
  /\ UNCHANGED <<uiVars, matchVars, clockVars, closureVars, pc, sinceReset>>

Next ==
  \/ \E el \in DtChoices : Loop(el)
  \/ LoopStep
  \/ \E d \in Dirs : ArrowKey(d)
  \/ SpaceKey
  \/ EnterKey
  \/ ResetButton
  \/ StartPause
  \/ \E s \in SpeedChoices : SetSpeed(s)
  \/ \E a \in Arenas : SetArena(a)
  \/ MouseEnter
  \/ MouseLeave

Spec == Init /\ [][Next]_vars

(* fairness: the browser keeps delivering animation frames (loop re-arms   *)
(* requestAnimationFrame on entry), and a frame's while loop runs to       *)
(* completion.                                                             *)
FairSpec == Spec /\ WF_vars(\E el \in DtChoices : Loop(el)) /\ []<>(pc = "idle")

(* the game view is dismissed: the component unmounts and the effect's     *)
(* cleanup runs                                                            *)
Dismiss ==
  /\ pc = "idle"
  /\ host.mounted
  /\ host' = [cleanup(host) EXCEPT !.mounted = FALSE]
  /\ UNCHANGED <<uiVars, matchVars, clockVars, activeRef, loopRunning, loopWinner,
                  loopSpeed, pc, sinceReset>>

(* the program with its view dismissed at any moment; the player starts,   *)
(* steers and changes the arena                                            *)
HostNext ==
  \/ \E el \in DtChoices : Loop(el)
  \/ LoopStep
  \/ \E d \in Dirs : ArrowKey(d)
  \/ StartPause
  \/ \E a \in Arenas : SetArena(a)
  \/ MouseEnter
  \/ Dismiss

HostSpec == Init /\ [][HostNext]_vars
(* the component mounted with or without the sound trigger: every handler  *)
(* that calls playSfx?.() runs in both variants                            *)
LoopStepEither ==
  /\ pc = "loop"
  /\ LET stepTime == stepTimeOf(loopSpeed)
     IN /\ accum' = accum - stepTime
        /\ pc' = IF accum - stepTime >= stepTime THEN "loop" ELSE "idle"
  /\ \E d2 \in aiChoose(aiView(world, p1, cols, rows), p2, cols, rows) :
       \E present \in BOOLEAN : resolve(d2, present, cols, rows)
  /\ UNCHANGED <<arena, speed, lastT, activeRef, closureVars, sinceReset>>

SfxNext ==
  \/ \E el \in DtChoices : Loop(el)
  \/ LoopStepEither
  \/ \E d \in Dirs : ArrowKey(d)
  \/ SpaceKey
  \/ \E present \in BOOLEAN : pc = "idle" /\ OnKeyBound /\ activeRef /\ resetSfx(present)
  \/ \E present \in BOOLEAN : pc = "idle" /\ host.mounted /\ resetSfx(present)
  \/ \E present \in BOOLEAN : StartPauseSfx(present)
  \/ \E s \in SpeedChoices : SetSpeed(s)
  \/ \E a \in Arenas : SetArena(a)
  \/ MouseEnter
  \/ MouseLeave

SfxSpec == Init /\ [][SfxNext]_vars

(* the same program with the speed slider moved over its range (slowest,   *)
(* initial, fastest) and the human left to run straight                    *)
SliderChoices == {1, InitialSpeed, 12}

SpeedNext ==
  \/ \E s \in SliderChoices : SetSpeed(s)
  \/ \E el \in DtChoices : Loop(el)
  \/ LoopStep
  \/ StartPause
  \/ ResetButton
  \/ \E a \in Arenas : SetArena(a)

SpeedSpec == Init /\ [][SpeedNext]_vars

(* ------------------------- aiChoose on its own ------------------------- *)
(* aiChoose applied to grids of the shipped Medium preset (36x26, 936      *)
(* cells): the human's start cell, optionally a full column of human trail *)
(* at x = wc that cuts the grid in two, and the computer on a corner, an   *)
(* edge or an inner cell with any heading.                                 *)
AiCols == shippedCols("M")
AiRows == shippedRows("M")
AiWalls == {-1, 5, 30}
AiXs == {0, 4, 33, 35}
AiYs == {0, 13, 25}

AiWorld(wc, px, py) ==
  [k \in 0..(AiCols * AiRows - 1) |->
     IF k = idx(px, py, AiCols) THEN 2
     ELSE IF k % AiCols = wc \/ k = idx(2, AiRows \div 2, AiCols) THEN 1
     ELSE 0]

AiInit ==
  /\ arena = "M"
  /\ speed = InitialSpeed
  /\ running = FALSE
  /\ winner = None
  /\ \E wc \in AiWalls, px \in AiXs, py \in AiYs, d \in Dirs :
        /\ world = AiWorld(wc, px, py)
        /\ p2 = [x |-> px, y |-> py, dir |-> d]
        /\ held1 = {<<2, AiRows \div 2>>} \cup {<<wc, y>> : y \in IF wc < 0 THEN {} ELSE 0..(AiRows - 1)}
        /\ held2 = {<<px, py>>}
        /\ ent2 = d
  /\ p1 = InitP1(AiRows)
  /\ lastT = 0
  /\ accum = 0
  /\ activeRef = FALSE
  /\ loopRunning = FALSE
  /\ loopWinner = None
  /\ loopSpeed = InitialSpeed
  /\ pc = "idle"
  /\ ent1 = <<1, 0>>
  /\ sinceReset = FALSE
  /\ host = Mounted

(* one call of aiChoose: its only write is p2.dir = best *)
AiCall ==
  /\ \E d \in aiChoose(aiView(world, p1, AiCols, AiRows), p2, AiCols, AiRows) :
        p2' = [p2 EXCEPT !.dir = d]
  /\ UNCHANGED <<uiVars, world, p1, ent1, ent2, held1, held2, clockVars, activeRef,
                  closureVars, pc, sinceReset>>

AiNext == AiCall

AiSpec == AiInit /\ [][AiNext]_vars

(* ----------------------- straight-line scenarios ----------------------- *)
(* stepOnce applied to two agents that face each other on one row of an    *)
(* otherwise empty ScenCols x ScenRows grid: the human at (hx, y) heading  *)
(* right, the computer at (ScenCols - 3, y) heading left.  With hx = 2 and *)
(* y = 4 on 18 x 9 this is the start layout reset() builds for such a      *)
(* grid, and the computer stands at (15, 4).                               *)
ScenCols == 18
ScenRows == 9
ScenHumanXs == 0..5

ScenInit ==
  /\ arena = "S"
  /\ speed = InitialSpeed
  /\ running = TRUE
  /\ winner = None
  /\ \E hx \in ScenHumanXs, y \in 0..(ScenRows - 1) :
        /\ p1 = [x |-> hx, y |-> y, dir |-> <<1, 0>>]
        /\ p2 = [x |-> ScenCols - 3, y |-> y, dir |-> <<-1, 0>>]
        /\ world = [k \in 0..(ScenCols * ScenRows - 1) |->
                      IF k = idx(hx, y, ScenCols) THEN 1
                      ELSE IF k = idx(ScenCols - 3, y, ScenCols) THEN 2
                      ELSE 0]
        /\ held1 = {<<hx, y>>}
        /\ held2 = {<<ScenCols - 3, y>>}
  /\ lastT = 1
  /\ accum = 0
  /\ activeRef = FALSE
  /\ loopRunning = TRUE
  /\ loopWinner = None
  /\ loopSpeed = InitialSpeed
  /\ pc = "idle"
  /\ ent1 = <<1, 0>>
  /\ ent2 = <<-1, 0>>
  /\ sinceReset = FALSE
  /\ host = Mounted

(* one stepOnce of the running match; the human presses no key.  The       *)
(* computer's heading is the one aiChoose leaves, or, as the scenarios     *)
(* suppose, the one it had.                                                *)
ScenStep ==
  /\ running
  /\ winner = None
  /\ \E d2 \in aiChoose(aiView(world, p1, ScenCols, ScenRows), p2, ScenCols, ScenRows)
                  \cup {p2.dir} :
        resolve(d2, TRUE, ScenCols, ScenRows)
  /\ UNCHANGED <<arena, speed, clockVars, activeRef, closureVars, pc, sinceReset>>

ScenNext == ScenStep

ScenSpec == ScenInit /\ [][ScenNext]_vars

(* ------------------------- dead-end scenarios -------------------------- *)
(* stepOnce applied to a computer at the mouth of a closed dead end on the *)
(* Medium grid.  The computer stands on cell at with heading cur, or one   *)
(* cell further, on the first cell of the dead end.  From at a straight    *)
(* 1-wide corridor of three free cells runs in direction dc and a second   *)
(* straight pocket of n free cells in direction dp; every other cell that  *)
(* touches the computer, the corridor or the pocket is human trail.  The   *)
(* human is far away on the start cell or near the top border, or its head *)
(* is the wall cell beside the corridor's last cell, heading into it.      *)
CorrAt == {<<17, 13>>, <<10, 6>>}
PocketLens == {0, 2, 4, 6}
CorrFar == {<<2, AiRows \div 2, <<1, 0>>>>, <<2, 3, <<0, -1>>>>, <<2, 2, <<0, -1>>>>}

Along(at, d, n) == {<<at[1] + k * d[1], at[2] + k * d[2]>> : k \in 1..n}
Touching(cs) ==
  {<<c[1] + d[1], c[2] + d[2]>> : c \in cs, d \in Dirs} \ cs
CorrBeside(at, dc) ==
  <<at[1] + 3 * dc[1] + dc[2], at[2] + 3 * dc[2] - dc[1], <<-dc[2], dc[1]>>>>
CorrWorld(ones, twos) ==
  [k \in 0..(AiCols * AiRows - 1) |->
     LET c == <<k % AiCols, k \div AiCols>>
     IN IF c \in twos THEN 2 ELSE IF c \in ones THEN 1 ELSE 0]

CorrInit ==
  /\ arena = "M"
  /\ speed = InitialSpeed
  /\ running = TRUE
  /\ winner = None
  /\ \E at \in CorrAt, cur \in Dirs, n \in PocketLens, in \in {0, 1} :
     \E dc \in {d \in Dirs : ~isRev(cur, d)} :
     \E dp \in {d \in Dirs : ~isRev(cur, d) /\ d # dc} :
     \E h \in CorrFar \cup {CorrBeside(at, dc)} :
        LET free == Along(at, dc, 3) \cup Along(at, dp, IF in = 1 THEN 0 ELSE n)
            twos == {at} \cup Along(at, dc, in)
            ones == Touching(free \cup {at}) \cup {<<2, AiRows \div 2>>, <<h[1], h[2]>>}
            head == IF in = 1 THEN <<at[1] + dc[1], at[2] + dc[2]>> ELSE at
        IN /\ world = CorrWorld(ones, twos)
           /\ p1 = [x |-> h[1], y |-> h[2], dir |-> h[3]]
           /\ p2 = [x |-> head[1], y |-> head[2], dir |-> IF in = 1 THEN dc ELSE cur]
           /\ held1 = ones
           /\ held2 = twos
           /\ ent1 = h[3]
           /\ ent2 = IF in = 1 THEN dc ELSE cur
  /\ lastT = 1
  /\ accum = 0
  /\ activeRef = FALSE
  /\ loopRunning = TRUE
  /\ loopWinner = None
  /\ loopSpeed = InitialSpeed
  /\ pc = "idle"
  /\ sinceReset = FALSE
  /\ host = Mounted

(* one stepOnce of the running match; the human presses no key *)
CorrStep ==
  /\ running
  /\ winner = None
  /\ \E d2 \in aiChoose(aiView(world, p1, AiCols, AiRows), p2, AiCols, AiRows) :
        resolve(d2, TRUE, AiCols, AiRows)
  /\ UNCHANGED <<arena, speed, clockVars, activeRef, closureVars, pc, sinceReset>>

CorrNext == CorrStep

CorrSpec == CorrInit /\ [][CorrNext]_vars

(* ======================================================================= *)
(* Properties                                                              *)
(* ======================================================================= *)
(* vocabulary of the properties, written against the state alone *)
Stepping == pc = "loop"
FreeCell(x, y) ==
  /\ x >= 0 /\ x <= cols - 1 /\ y >= 0 /\ y <= rows - 1
  /\ world[y * cols + x] = 0
HumanTargetX == p1.x + p1.dir[1]
HumanTargetY == p1.y + p1.dir[2]
(* the computer's target under the heading the AI leaves in p2.dir *)
ComputerTargetX == p2.x + p2'.dir[1]
ComputerTargetY == p2.y + p2'.dir[2]
HumanFree == FreeCell(HumanTargetX, HumanTargetY)
ComputerFree == FreeCell(ComputerTargetX, ComputerTargetY)
SameTarget == HumanTargetX = ComputerTargetX /\ HumanTargetY = ComputerTargetY
PositionsKept == p1'.x = p1.x /\ p1'.y = p1.y /\ p2'.x = p2.x /\ p2'.y = p2.y
(* the transition stays within one match: no reset, no rebuild *)
MatchContinues == arena' = arena /\ ~reset
Occupied == {k \in DOMAIN world : world[k] # 0}

(* C1: head-on precedence.  In a step where, under the heading the AI has  *)
(* chosen, both candidate cells are in bounds, unoccupied and the same     *)
(* cell, that step sets the outcome to Draw, stops running, and moves      *)
(* neither agent and marks no cell.                                        *)
C1_HeadOnDraw ==
  [][ (Stepping /\ HumanFree /\ ComputerFree /\ SameTarget)
        => (winner' = "Draw" /\ running' = FALSE /\ PositionsKept /\ world' = world) ]_vars

(* a state left by a head-on step: Draw, and the two agents still face the *)
(* same free cell                                                          *)
C1_Witness ==
  /\ winner = "Draw"
  /\ ~running
  /\ FreeCell(HumanTargetX, HumanTargetY)
  /\ HumanTargetX = p2.x + p2.dir[1]
  /\ HumanTargetY = p2.y + p2.dir[2]

(* C2: outcome resolution.  A move collides iff its candidate cell is      *)
(* outside the grid or occupied (by any trail); both collide -> Draw, only *)
(* the computer -> "You win!", only the human -> "Computer wins", neither  *)
(* (candidates different) -> the outcome and running are left as they are. *)
C2_OutcomeResolution ==
  [][ Stepping =>
        /\ (~HumanFree /\ ~ComputerFree) => winner' = "Draw"
        /\ (HumanFree /\ ~ComputerFree) => winner' = "You win!"
        /\ (~HumanFree /\ ComputerFree) => winner' = "Computer wins"
        /\ (HumanFree /\ ComputerFree /\ ~SameTarget)
             => (winner' = winner /\ running' = running) ]_vars

(* a state left by a step in which only the computer collided *)
C2_Witness ==
  /\ winner = "You win!"
  /\ HumanFree
  /\ ~FreeCell(p2.x + p2.dir[1], p2.y + p2.dir[2])

(* C3: terminal idempotence.  A step taken while an outcome is set leaves  *)
(* the grid, both positions and the outcome unchanged.                     *)
C3_TerminalIdempotence ==
  [][ (Stepping /\ winner # None)
        => (world' = world /\ PositionsKept /\ winner' = winner) ]_vars

(* C4: once an outcome is set, running stays false and no step is executed *)
(* until a reset or an arena rebuild.                                      *)
C4_FinishedStaysStopped ==
  [][ (winner # None /\ MatchContinues)
        => (running' = FALSE /\ ~Stepping /\ pc' = "idle") ]_vars

(* C5: loop gating.  A frame enters its stepping loop only if, at that     *)
(* frame, running is true and no outcome is set.                           *)
C5_LoopGating ==
  [][ (pc = "idle" /\ pc' = "loop") => (running /\ winner = None) ]_vars

(* C6: loop progress.  Once the match has been started (running, no        *)
(* outcome) and frames arrive with positive elapsed time (lastT is set), a *)
(* step is eventually executed, unless the player first pauses, or resets  *)
(* or rebuilds the match (which clears lastT).                             *)
C6_LoopProgress ==
  (running /\ winner = None /\ lastT # 0)
     ~> (Stepping \/ ~running \/ winner # None \/ lastT = 0)

(* C7: bounds invariant.  Both agents are always inside the current grid.  *)
C7_BoundsInvariant ==
  /\ p1.x >= 0 /\ p1.x < cols /\ p1.y >= 0 /\ p1.y < rows
  /\ p2.x >= 0 /\ p2.x < cols /\ p2.y >= 0 /\ p2.y < rows

(* the human, on the top row and heading up, has been stopped at the wall *)
C7_Witness ==
  /\ p1.y = 0
  /\ p1.dir = <<0, -1>>
  /\ winner = "Computer wins"
  /\ Cardinality(Occupied) >= 4

(* C8: occupancy monotonicity.  Within one match no transition changes an  *)
(* occupied cell (neither back to empty nor to the other owner).           *)
C8_OccupancyMonotone ==
  [][ MatchContinues
        => \A k \in DOMAIN world : world[k] # 0 => world'[k] = world[k] ]_vars

(* three committed steps: eight trail cells *)
C8_Witness == Cardinality(Occupied) >= 8

(* C9: no instant U-turns.  In a committed step neither agent moves with   *)
(* the negation of the heading it had at the end of the previous committed *)
(* step (its initial heading for the first step).                          *)
C9_NoReverse ==
  [][ (Stepping /\ world' # world)
        => (~isRev(p1.dir, ent1) /\ ~isRev(p2'.dir, ent2)) ]_vars

(* C10: commit.  When neither agent collides, the step marks the human's   *)
(* candidate 1 and the computer's candidate 2, moves both agents there,    *)
(* changes no other cell, keeps the human's heading, running and outcome.  *)
C10_Commit ==
  [][ (Stepping /\ HumanFree /\ ComputerFree /\ ~SameTarget) =>
        /\ world' = [k \in DOMAIN world |->
                       IF k = HumanTargetY * cols + HumanTargetX THEN 1
                       ELSE IF k = ComputerTargetY * cols + ComputerTargetX THEN 2
                       ELSE world[k]]
        /\ p1'.x = HumanTargetX /\ p1'.y = HumanTargetY
        /\ p2'.x = ComputerTargetX /\ p2'.y = ComputerTargetY
        /\ p1'.dir = p1.dir
        /\ running' = running /\ winner' = winner ]_vars

(* a match two committed steps in, each agent on a cell it owns *)
C10_Witness ==
  /\ Cardinality(Occupied) = 6
  /\ winner = None
  /\ world[p1.y * cols + p1.x] = 1
  /\ world[p2.y * cols + p2.x] = 2
  /\ <<p1.x, p1.y>> # <<2, rows \div 2>>

(* the layout a build or a reset leaves for the current preset *)
StartCell1 == (rows \div 2) * cols + 2
StartCell2 == (rows \div 2) * cols + (cols - 3)
InitialLayout ==
  /\ p1 = [x |-> 2, y |-> rows \div 2, dir |-> <<1, 0>>]
  /\ p2 = [x |-> cols - 3, y |-> rows \div 2, dir |-> <<-1, 0>>]
  /\ DOMAIN world = 0..(cols * rows - 1)
  /\ \A k \in DOMAIN world :
       world[k] = IF k = StartCell1 THEN 1 ELSE IF k = StartCell2 THEN 2 ELSE 0
ResetState == InitialLayout /\ winner = None /\ running = FALSE /\ accum = 0

(* C11: reset.  A reset request (Reset button, or Enter while input is     *)
(* captured) leaves the preset's initial layout, no outcome, running false *)
(* and accumulator 0; and from the reset until the player starts the match *)
(* again no step is executed.                                              *)
C11_Reset ==
  [][ /\ (ResetButton \/ EnterKey) => ResetState'
      /\ ~(Stepping /\ sinceReset) ]_vars

(* C12: changing the arena preset leaves the state a reset would leave for *)
(* the new dimensions: initial layout, no outcome, running false,          *)
(* accumulator 0.                                                          *)
C12_PresetChangeIsReset ==
  [][ arena' # arena => ResetState' ]_vars

(* C13: pause/resume.  Each toggle (Space while captured, or the           *)
(* Start/Pause button) inverts running and leaves the grid, both agents    *)
(* (positions and headings), the outcome and the accumulator unchanged.    *)
C13_PauseResume ==
  [][ (SpaceKey \/ StartPause) =>
        /\ running' = ~running
        /\ world' = world /\ p1' = p1 /\ p2' = p2
        /\ winner' = winner /\ accum' = accum ]_vars

(* C14: directional input.  An arrow key (while captured) sets the human's *)
(* heading to the requested direction unless that is the exact reverse of  *)
(* the current heading, and changes nothing else; a step moves the human,  *)
(* if it moves, along the heading stored at the time of the step (the last *)
(* accepted one) and leaves that heading in place.                         *)
C14_DirectionalInput ==
  [][ /\ \A d \in Dirs :
           ArrowKey(d) =>
             /\ p1'.dir = IF d[1] = -p1.dir[1] /\ d[2] = -p1.dir[2] THEN p1.dir ELSE d
             /\ p1'.x = p1.x /\ p1'.y = p1.y
             /\ world' = world /\ p2' = p2
             /\ running' = running /\ winner' = winner /\ accum' = accum
      /\ Stepping =>
           /\ p1'.dir = p1.dir
           /\ \/ (p1'.x = p1.x /\ p1'.y = p1.y)
              \/ (p1'.x = HumanTargetX /\ p1'.y = HumanTargetY) ]_vars

(* the human has turned up from the start cell and a step has moved it     *)
(* there; a later key press turned it right again                          *)
C14_Witness ==
  /\ p1.x = 2 /\ p1.y = (rows \div 2) - 1
  /\ p1.dir = <<1, 0>>
  /\ world[p1.y * cols + p1.x] = 1
  /\ Cardinality(Occupied) = 4

(* C15: speed control.  The step interval is lerp(0.24, 0.06, (speed-1)/11) *)
(* seconds: 132 ticks at speed 1, 33 ticks at speed 12, strictly           *)
(* decreasing in speed; and every step the loop executes consumes the      *)
(* interval of the current value of the speed control.                     *)
C15_SpeedControl ==
  [][ /\ stepTimeOf(1) = 132 /\ stepTimeOf(12) = 33
      /\ \A s \in 1..11 : stepTimeOf(s + 1) < stepTimeOf(s)
      /\ Stepping => accum' = accum - stepTimeOf(speed) ]_vars

(* C16: AI boundedness.  Whatever the grid and the computer's position and *)
(* heading, aiChoose leaves the computer one of the four cardinal unit     *)
(* headings, and each flood fill it runs (one per open non-reverse         *)
(* neighbour) dequeues at most min(cols*rows, 600) cells.                  *)
C16_AiBounded ==
  /\ p2.dir \in {<<1, 0>>, <<-1, 0>>, <<0, 1>>, <<0, -1>>}
  /\ \A d \in {p2.dir, <<p2.dir[2], -p2.dir[1]>>, <<-p2.dir[2], p2.dir[1]>>} :
       LET nx == p2.x + d[1]
           ny == p2.y + d[2]
       IN (nx >= 0 /\ nx < AiCols /\ ny >= 0 /\ ny < AiRows /\ world[ny * AiCols + nx] = 0)
            => /\ floodCount(nx, ny, world, AiCols, AiRows) <= AiCols * AiRows
               /\ floodCount(nx, ny, world, AiCols, AiRows) <= 600

(* aiChoose has turned the computer, and one of the flood fills it ran     *)
(* started in a region of more than 600 cells and stopped at 600           *)
C16_Witness ==
  /\ p2.dir # ent2
  /\ AiCols * AiRows > 600
  /\ \E d \in {ent2, <<ent2[2], -ent2[1]>>, <<-ent2[2], ent2[1]>>} :
       /\ p2.x + d[1] >= 0 /\ p2.x + d[1] < AiCols /\ p2.y + d[2] >= 0 /\ p2.y + d[2] < AiRows
       /\ world[(p2.y + d[2]) * AiCols + p2.x + d[1]] = 0
       /\ floodCount(p2.x + d[1], p2.y + d[2], world, AiCols, AiRows) = 600

(* C17: the AI is read-only.  In every step the computer's heading is one  *)
(* aiChoose yields on the grid and positions as they are before the step;  *)
(* the human's heading is left alone; the grid changes at most in the two  *)
(* candidate cells of the step's own commit, the agents stay or move to    *)
(* those candidates, and running and the outcome change only when the step *)
(* itself detects a collision.                                             *)
C17_AiReadOnly ==
  [][ Stepping =>
        /\ p2'.dir \in aiChoose(world, p2, cols, rows)
        /\ p1'.dir = p1.dir
        /\ \A k \in DOMAIN world :
             world'[k] # world[k]
               => (k = HumanTargetY * cols + HumanTargetX \/ k = ComputerTargetY * cols + ComputerTargetX)
        /\ PositionsKept
             \/ (p1'.x = HumanTargetX /\ p1'.y = HumanTargetY
                   /\ p2'.x = ComputerTargetX /\ p2'.y = ComputerTargetY)
        /\ (running' = running /\ winner' = winner)
             \/ ~HumanFree \/ ~ComputerFree \/ SameTarget ]_vars

(* a step in which aiChoose turned the computer away from its initial      *)
(* heading and the step then moved it along the new one                    *)
C17_Witness ==
  /\ winner = None
  /\ p2.dir \in {<<0, 1>>, <<0, -1>>}
  /\ p2.y # rows \div 2
  /\ world[p2.y * cols + p2.x] = 2
  /\ p1.dir = <<1, 0>>

(* the layout InitWorld, InitP1 and InitP2 give for the shipped presets    *)
(* 28x20, 36x26 and 48x32                                                  *)
ShippedLayout ==
  \A a \in {"S", "M", "L"} :
    LET C == shippedCols(a)
        R == shippedRows(a)
        w == InitWorld(C, R)
    IN /\ <<C, R>> \in {<<28, 20>>, <<36, 26>>, <<48, 32>>}
       /\ InitP1(R) = [x |-> 2, y |-> R \div 2, dir |-> <<1, 0>>]
       /\ InitP2(C, R) = [x |-> C - 3, y |-> R \div 2, dir |-> <<-1, 0>>]
       /\ DOMAIN w = 0..(C * R - 1)
       /\ \A k \in DOMAIN w :
            w[k] = IF k = (R \div 2) * C + 2 THEN 1
                   ELSE IF k = (R \div 2) * C + (C - 3) THEN 2 ELSE 0

(* C18: initial layout.  On mount, and immediately after every reset       *)
(* (button or Enter) and every rebuild for a new preset, the human is at   *)
(* (2, rows div 2) heading right, the computer at (cols-3, rows div 2)     *)
(* heading left, the human's cell is owned by 1, the computer's by 2 and   *)
(* every other cell is empty; the same holds of the layout computed for    *)
(* the three shipped sizes.                                                *)
C18_InitialLayout ==
  /\ InitialLayout
  /\ [][ /\ ShippedLayout
         /\ (ResetButton \/ EnterKey \/ arena' # arena) => InitialLayout' ]_vars

(* the Large preset just after a reset that followed some play there *)
C18_Witness ==
  /\ arena = "L"
  /\ sinceReset
  /\ lastT = 0
  /\ InitialLayout
  /\ loopRunning

OwnedBy(i) == {c \in (0..(cols - 1)) \X (0..(rows - 1)) : world[c[2] * cols + c[1]] = i}

(* C19: trail invariant.  The cells owned by an agent are exactly the      *)
(* cells that agent has held in this match (its start cell and one cell    *)
(* per committed step, so both agents have held equally many); no cell has *)
(* been held by both; each agent stands on a cell it owns; and the agents  *)
(* stand on different cells.                                               *)
C19_TrailInvariant ==
  /\ OwnedBy(1) = held1
  /\ OwnedBy(2) = held2
  /\ held1 \cap held2 = {}
  /\ Cardinality(held1) = Cardinality(held2)
  /\ world[p1.y * cols + p1.x] = 1
  /\ world[p2.y * cols + p2.x] = 2
  /\ <<p1.x, p1.y>> # <<p2.x, p2.y>>

(* three committed steps on each side, the match over *)
C19_Witness ==
  /\ Cardinality(held1) = 4
  /\ Cardinality(OwnedBy(2)) = 4
  /\ winner # None

(* C20: input capture scoping.  While the capture flag is false no key     *)
(* press has any effect: neither an arrow key, nor Space, nor Enter can    *)
(* take a step of the program (change a heading, running, the outcome, the *)
(* grid or the accumulator).                                               *)
C20_CaptureScoping ==
  ~activeRef =>
    /\ \A d \in Dirs : ~ENABLED <<ArrowKey(d)>>_vars
    /\ ~ENABLED <<SpaceKey>>_vars
    /\ ~ENABLED <<EnterKey>>_vars

(* the pointer has left the surface in the middle of a running match: the  *)
(* keys had effect before (the human was turned), and have none now        *)
C20_Witness ==
  /\ ~activeRef
  /\ running /\ winner = None
  /\ p1.dir = <<0, 1>>
  /\ Cardinality(Occupied) >= 4

StartedAt2And15 ==
  /\ <<2, 4>> \in held1
  /\ <<1, 4>> \notin held1
  /\ <<15, 4>> \in held2
  /\ <<16, 4>> \notin held2
(* steps of this match that moved the agents *)
StepsCommitted == Cardinality(held1) - 1
At(p, x, y) == p.x = x /\ p.y = y

Boxed ==
  \A d \in Dirs : isRev(p2.dir, d) \/ ~FreeCell(p2.x + d[1], p2.y + d[2])

(* C23: the computer never crashes while it has a way out.  In a step the  *)
(* computer's own move collides (its candidate cell is outside the grid or *)
(* occupied) iff it was boxed in before the step; then aiChoose leaves its *)
(* heading as it was; and a step that sets "You win!" finds it boxed in.   *)
C23_NoAvoidableCrash ==
  [][ Stepping =>
        /\ (~ComputerFree <=> Boxed)
        /\ (Boxed => p2'.dir = p2.dir)
        /\ ((world' = world /\ winner' = "You win!") => Boxed) ]_vars

(* the computer was boxed in and the step gave the match to the human *)
C23_Witness ==
  /\ winner = "You win!"
  /\ ~running
  /\ Boxed

(* the headings aiChoose may take from heading cur: all but the reverse *)
Candidates(cur) == {d \in Dirs : ~isRev(cur, d)}
OpenIn(d, C, R) ==
  /\ inb(p2.x + d[1], p2.y + d[2], C, R)
  /\ world[idx(p2.x + d[1], p2.y + d[2], C)] = 0
FillIn(d, C, R) == floodCount(p2.x + d[1], p2.y + d[2], world, C, R)
Dist2In(d, C, R) == Abs(2 * (p2.x + d[1]) - C) + Abs(2 * (p2.y + d[2]) - R)
Open(d) == OpenIn(d, cols, rows)
(* the adjusted score of heading d for a computer heading cur, as the      *)
(* fraction AdjNum / AdjDen:  count * 1/(1 + 0.2 * dist) * (1.05 | 1),     *)
(* dist the Manhattan distance of the cell from (C/2, R/2)                 *)
AdjNum(cur, d, C, R) == FillIn(d, C, R) * 10 * (IF d = cur THEN 21 ELSE 20)
AdjDen(cur, d, C, R) == 20 * (10 + Dist2In(d, C, R))

(* C24: AI choice.  In a call of aiChoose where some candidate heading     *)
(* (straight or a turn) leads to an in-bounds unoccupied cell, the heading *)
(* aiChoose leaves is such a candidate, and its adjusted score is at least *)
(* that of every other open candidate.                                     *)
C24_AiChoice ==
  [][ (AiCall /\ \E d \in Candidates(p2.dir) : OpenIn(d, AiCols, AiRows)) =>
        /\ p2'.dir \in Candidates(p2.dir)
        /\ OpenIn(p2'.dir, AiCols, AiRows)
        /\ LET open == {d \in Candidates(p2.dir) : OpenIn(d, AiCols, AiRows)}
               num == [d \in open |-> AdjNum(p2.dir, d, AiCols, AiRows)]
               den == [d \in open |-> AdjDen(p2.dir, d, AiCols, AiRows)]
           IN \A d \in open : num[p2'.dir] * den[d] >= num[d] * den[p2'.dir] ]_vars

(* aiChoose has turned the computer away from an open straight cell for a  *)
(* turn that scores strictly higher                                        *)
C24_Witness ==
  /\ p2.dir \in Candidates(ent2) \ {ent2}
  /\ OpenIn(ent2, AiCols, AiRows)
  /\ OpenIn(p2.dir, AiCols, AiRows)
  /\ AdjNum(ent2, p2.dir, AiCols, AiRows) * AdjDen(ent2, ent2, AiCols, AiRows)
       > AdjNum(ent2, ent2, AiCols, AiRows) * AdjDen(ent2, p2.dir, AiCols, AiRows)

(* the turns of a computer heading cur, as seen on the screen (x grows to  *)
(* the right, y grows downward): heading right (1,0), the right turn is    *)
(* down (0,1) and the left turn is up (0,-1)                               *)
ScreenRight(cur) == <<-cur[2], cur[1]>>
ScreenLeft(cur) == <<cur[2], -cur[1]>>
(* the score before the 1.05 bonus: count * 1/(1 + 0.2 * dist) *)
UnadjAtLeast(a, b, C, R) ==
  FillIn(a, C, R) * (10 + Dist2In(b, C, R)) >= FillIn(b, C, R) * (10 + Dist2In(a, C, R))

(* C25: AI preference order and tie-break.  In a call of aiChoose, (a)     *)
(* when both turns are open with the same fill count at the same distance  *)
(* from the centre and a turn is taken, it is the right turn as seen on    *)
(* the screen, the earlier of the two in the order straight, right, left;  *)
(* (b) when the straight cell is open and its unadjusted score is at least *)
(* that of every open turn, straight is kept; (c) the reverse is never     *)
(* taken.                                                                  *)
C25_PreferenceOrder ==
  [][ AiCall =>
        LET cur == p2.dir
            Rt == ScreenRight(cur)
            Lt == ScreenLeft(cur)
        IN /\ (/\ OpenIn(Rt, AiCols, AiRows) /\ OpenIn(Lt, AiCols, AiRows)
               /\ FillIn(Rt, AiCols, AiRows) = FillIn(Lt, AiCols, AiRows)
               /\ Dist2In(Rt, AiCols, AiRows) = Dist2In(Lt, AiCols, AiRows)
               /\ p2'.dir # cur)
                => p2'.dir = Rt
           /\ (/\ OpenIn(cur, AiCols, AiRows)
               /\ \A d \in {Rt, Lt} :
                     OpenIn(d, AiCols, AiRows) => UnadjAtLeast(cur, d, AiCols, AiRows))
                => p2'.dir = cur
           /\ ~isRev(cur, p2'.dir) ]_vars

(* the order of the emergency scan, and its pick for a computer heading    *)
(* cur: the first direction, not the reverse of cur, whose cell is open;   *)
(* cur when there is none                                                  *)
ScanOrder == <<<<1, 0>>, <<-1, 0>>, <<0, 1>>, <<0, -1>>>>
ScanHits(cur) == {i \in 1..4 : ~isRev(cur, ScanOrder[i]) /\ Open(ScanOrder[i])}
ScanPick(cur) ==
  IF ScanHits(cur) = {} THEN cur
  ELSE ScanOrder[CHOOSE i \in ScanHits(cur) : \A j \in ScanHits(cur) : i <= j]

(* straight and the two turns of a computer heading cur *)
StraightAndTurns(cur) == {cur, ScreenRight(cur), ScreenLeft(cur)}

(* C26: AI fallback.  In a step where straight and both turns are out of   *)
(* bounds or occupied, aiChoose leaves the first open direction of the     *)
(* scan right, left, down, up (the reverse skipped), or the heading it had *)
(* when there is none; in the latter case the step registers a collision   *)
(* of the computer: it stops the match with Draw or "You win!" and moves   *)
(* nobody.                                                                 *)
C26_AiFallback ==
  [][ (Stepping /\ \A d \in StraightAndTurns(p2.dir) : ~Open(d)) =>
        /\ p2'.dir = ScanPick(p2.dir)
        /\ (ScanHits(p2.dir) = {} =>
              /\ ~ComputerFree
              /\ winner' \in {"Draw", "You win!"}
              /\ running' = FALSE
              /\ PositionsKept) ]_vars

(* a boxed-in computer has kept its heading and crashed in the same step   *)
(* as the human                                                            *)
C26_Witness ==
  /\ winner = "Draw"
  /\ Boxed
  /\ ~HumanFree
  /\ p2.dir = ent2

(* the 4-connected component of free cells of the grid around a free cell, *)
(* grown ring by ring                                                      *)
Around(cells) ==
  UNION {{<<c[1] + 1, c[2]>>, <<c[1] - 1, c[2]>>, <<c[1], c[2] + 1>>, <<c[1], c[2] - 1>>}
           : c \in cells}
RECURSIVE Grow(_, _, _, _)
Grow(found, ring, C, R) ==
  IF ring = {} THEN found
  ELSE LET nxt == {c \in Around(ring) \ found :
                     /\ c[1] >= 0 /\ c[1] < C /\ c[2] >= 0 /\ c[2] < R
                     /\ world[c[2] * C + c[1]] = 0}
       IN Grow(found \cup nxt, nxt, C, R)
Component(x, y, C, R) == Grow({<<x, y>>}, {<<x, y>>}, C, R)

(* the start cells looked at: the four neighbours of the computer and the  *)
(* two far corners of the grid                                             *)
FillStarts ==
  {<<p2.x + d[1], p2.y + d[2]>> : d \in Dirs} \cup {<<0, 0>>, <<AiCols - 1, AiRows - 1>>}
FreeStart(c) ==
  /\ c[1] >= 0 /\ c[1] < AiCols /\ c[2] >= 0 /\ c[2] < AiRows
  /\ world[c[2] * AiCols + c[1]] = 0

(* C27: flood-fill count.  From an in-bounds unoccupied start cell the     *)
(* count of floodScore is the size of the 4-connected component of free    *)
(* cells around the start, or min(cols*rows, 600) when the component is    *)
(* larger: occupied cells are neither counted nor passed through.          *)
C27_FloodCount ==
  \A c \in FillStarts :
    FreeStart(c) =>
      LET size == Cardinality(Component(c[1], c[2], AiCols, AiRows))
          cap == IF AiCols * AiRows < 600 THEN AiCols * AiRows ELSE 600
      IN floodCount(c[1], c[2], world, AiCols, AiRows) = (IF size < cap THEN size ELSE cap)

(* aiChoose has run on a grid cut in two by a trail: from one corner the   *)
(* fill stops at the cap inside a larger region, from the other it counts  *)
(* a whole region smaller than the cap                                     *)
C27_Witness ==
  /\ p2.dir # ent2
  /\ FreeStart(<<0, 0>>)
  /\ FreeStart(<<AiCols - 1, AiRows - 1>>)
  /\ \E a, b \in {<<0, 0>>, <<AiCols - 1, AiRows - 1>>} :
       /\ floodCount(a[1], a[2], world, AiCols, AiRows) = 600
       /\ Cardinality(Component(a[1], a[2], AiCols, AiRows)) > 600
       /\ floodCount(b[1], b[2], world, AiCols, AiRows) < 600
       /\ floodCount(b[1], b[2], world, AiCols, AiRows)
            = Cardinality(Component(b[1], b[2], AiCols, AiRows))

(* C28: fixed-step catch-up arithmetic.  Between frames the accumulator is *)
(* below the step interval.  A frame that finds the match running with no  *)
(* outcome, the accumulator at a and dt elapsed, sets the accumulator to   *)
(* a + dt and enters its stepping loop iff a + dt holds at least one step  *)
(* interval, i.e. iff floor((a + dt) / interval) > 0; the loop is only     *)
(* ever inside an iteration with a whole interval left.                    *)
C28_CatchUp ==
  LET st == stepTimeOf(speed) IN
  /\ pc = "idle" => (accum >= 0 /\ accum < st)
  /\ pc = "loop" => accum >= st
  /\ (pc = "idle" /\ running /\ winner = None) =>
       \A el \in DtChoices :
         LET due == accum + (IF lastT # 0 THEN el ELSE 0) IN
         ENABLED (/\ Loop(el)
                  /\ accum' = due
                  /\ pc' = (IF due \div st > 0 THEN "loop" ELSE "idle"))

(* C29: no partial commit.  A step in which an agent collides (a candidate *)
(* cell outside the grid or occupied, or both candidates the same cell)    *)
(* leaves the grid, the human and the computer's position as they were,    *)
(* also for the agent whose own move was free; it stops the match, sets an *)
(* outcome, and may change the computer's heading.                         *)
C29_NoPartialCommit ==
  [][ (Stepping /\ (~HumanFree \/ ~ComputerFree \/ SameTarget)) =>
        /\ world' = world
        /\ p1' = p1
        /\ p2' = [p2 EXCEPT !.dir = p2'.dir]
        /\ UNCHANGED <<arena, speed, activeRef, lastT>>
        /\ running' = FALSE
        /\ winner' # None ]_vars

(* the human has crashed while the computer's move was free: the computer  *)
(* has not moved and its target cell is still unmarked                     *)
C29_Witness ==
  /\ winner = "Computer wins"
  /\ ~running
  /\ ~HumanFree
  /\ Open(p2.dir)
  /\ world[idx(p2.x, p2.y, cols)] = 2

(* the cells a step has newly marked *)
Claimed == {k \in DOMAIN world : world[k] = 0 /\ world'[k] # 0}

(* C30: every match ends.  A step that moves the agents marks exactly two  *)
(* cells that were free, so a match has at most (cols*rows - 2) / 2 such   *)
(* steps; and once the match is running with no outcome and frames arrive  *)
(* with positive elapsed time, an outcome is eventually set, unless the    *)
(* player first pauses, resets or changes the arena.                       *)
C30_EveryMatchEnds ==
  /\ [][ (Stepping /\ world' # world) => Cardinality(Claimed) = 2 ]_vars
  /\ [](2 * StepsCommitted <= cols * rows - 2)
  /\ (running /\ winner = None /\ lastT # 0)
       ~> (winner # None \/ ~running \/ lastT = 0)

(* a requestAnimationFrame callback begins *)
Frame == \E el \in DtChoices : Loop(el)

(* C31: no burst after pause.  A frame that arrives while the match is     *)
(* paused or finished leaves the accumulator as it was and runs no step,   *)
(* so a resumed match starts from the accumulator it was paused with.      *)
C31_NoBurstAfterPause ==
  [][ (Frame /\ (~running \/ winner # None)) => (accum' = accum /\ pc' = "idle") ]_vars

(* C32: single loop / cancellation.  At most one animation-frame callback  *)
(* is pending and at most one keydown listener is registered, each that of *)
(* the effect instance now installed: an arena rebuild leaves nothing of   *)
(* the previous loop or listener behind.  Once the view is dismissed none  *)
(* is left at all, and nothing changes the game any more.                  *)
C32_SingleLoop ==
  /\ [](/\ Len(host.raf) <= 1
        /\ \A i \in DOMAIN host.raf : host.raf[i].live /\ host.raf[i].ref
        /\ Len(host.keys) <= 1
        /\ \A i \in DOMAIN host.keys : host.keys[i]
        /\ ~host.mounted => (host.raf = << >> /\ host.keys = << >>))
  /\ [][host.mounted]_vars

(* the arena has been rebuilt while running, its loop has stepped the      *)
(* match, and the view has then been dismissed                             *)
C32_Witness ==
  /\ ~host.mounted
  /\ arena # "M"
  /\ loopRunning
  /\ Cardinality(held1) > 1

(* the step detects a collision: it assigns the outcome and calls          *)
(* playSfx("boom")                                                         *)
CollidingStep == Stepping /\ (~HumanFree \/ ~ComputerFree \/ SameTarget)

(* C33: the collision cue and the outcome are produced once per match.  A  *)
(* step that assigns the outcome and triggers "boom" is taken only while   *)
(* no outcome is set: once a step has collided, no later step of the same  *)
(* frame or of a later one collides again.                                 *)
C33_OnceOnly ==
  [][ CollidingStep => winner = None ]_vars

(* other human records: the human's own with another pending heading, and  *)
(* a human placed diagonally next to the computer and heading for the cell *)
(* below it                                                                *)
HumanVariants ==
  {[p1 EXCEPT !.dir = d] : d \in Dirs \ {p1.dir}}
    \cup {[x |-> p2.x + a, y |-> p2.y + 1, dir |-> <<-a, 0>>] : a \in {-1, 1}}
AiPick(q) == aiChoose(aiView(world, q, AiCols, AiRows), p2, AiCols, AiRows)

C35_FirstFrame ==
  /\ [](lastT = 0 => accum = 0)
  /\ [][ (reset \/ arena' # arena) => (lastT' = 0 /\ accum' = 0) ]_vars
  /\ [][ (Frame /\ lastT = 0) => (accum' = 0 /\ pc' = "idle" /\ world' = world) ]_vars

(* the first frame after a rebuild has come to a loop that does step: the  *)
(* match is running, the clock is stamped, nothing is accumulated and no   *)
(* step has been taken                                                     *)
C35_Witness ==
  /\ lastT # 0
  /\ accum = 0
  /\ loopRunning /\ loopWinner = None
  /\ running /\ winner = None
  /\ Cardinality(held1) = 1

(* the free cells next to cell (x, y), as headings *)
FreeAround(x, y) ==
  {d \in Dirs : /\ inb(x + d[1], y + d[2], AiCols, AiRows)
                /\ world[idx(x + d[1], y + d[2], AiCols)] = 0}
(* heading d takes the computer onto the first cell of a closed 1-wide     *)
(* corridor of three free cells                                            *)
Corridor3(d) ==
  /\ OpenIn(d, AiCols, AiRows)
  /\ Cardinality(FreeAround(p2.x + d[1], p2.y + d[2])) = 1
  /\ FillIn(d, AiCols, AiRows) = 3
(* another candidate heading leads to a free cell with more than three     *)
(* cells to reach                                                          *)
LargerElsewhere(d) ==
  \E e \in Candidates(p2.dir) \ {d} :
     OpenIn(e, AiCols, AiRows) /\ FillIn(e, AiCols, AiRows) > 3

(* C36: dead-end avoidance.  In a step where one candidate heading enters  *)
(* a closed 1-wide corridor of length 3 and another candidate leads to a   *)
(* free cell with a larger reachable area, the heading the AI leaves is    *)
(* not the one into the corridor.                                          *)
C36_DeadEndAvoidance ==
  [][ \A d \in Candidates(p2.dir) :
        (Corridor3(d) /\ LargerElsewhere(d)) => p2'.dir # d ]_vars

(* the free cells next to cell (x, y) of grid w, and the number of free    *)
(* cells that can be reached from it                                       *)
FreeAroundIn(w, x, y) ==
  {d \in Dirs : /\ inb(x + d[1], y + d[2], AiCols, AiRows)
                /\ w[idx(x + d[1], y + d[2], AiCols)] = 0}
ReachIn(w, x, y) == floodCount(x, y, w, AiCols, AiRows) - 1
(* a head on (x, y) is in a closed 1-wide dead end with k free cells left  *)
(* ahead of it; k = 2 on the first cell of a corridor of length 3          *)
DeadEnd(k, w, x, y) ==
  /\ Cardinality(FreeAroundIn(w, x, y)) = (IF k = 0 THEN 0 ELSE 1)
  /\ ReachIn(w, x, y) = k
InCorridor(k) == DeadEnd(k, world, p2.x, p2.y)
HumanAhead == [x |-> p1.x + p1.dir[1], y |-> p1.y + p1.dir[2]]
HumanOpen ==
  /\ inb(HumanAhead.x, HumanAhead.y, AiCols, AiRows)
  /\ world[idx(HumanAhead.x, HumanAhead.y, AiCols)] = 0
(* the one free cell next to the computer's head *)
CorridorAhead ==
  LET d == CHOOSE d \in FreeAroundIn(world, p2.x, p2.y) : TRUE
  IN [x |-> p2.x + d[1], y |-> p2.y + d[2]]
(* the human's move is free and is not into the cell the computer moves to *)
HumanMoves == HumanOpen /\ HumanAhead # CorridorAhead
(* the human's move takes a cell of the computer's dead end *)
HumanIntrudes ==
  /\ HumanOpen
  /\ ReachIn([world EXCEPT ![idx(HumanAhead.x, HumanAhead.y, AiCols)] = 1], p2.x, p2.y)
       < ReachIn(world, p2.x, p2.y)
(* the step sets no outcome and moves the computer one cell on, into a     *)
(* dead end with k free cells left                                         *)
AdvancesTo(k) ==
  LET after == commit(world, HumanAhead, CorridorAhead, AiCols)
  IN /\ winner' = None
     /\ p2'.x = CorridorAhead.x /\ p2'.y = CorridorAhead.y
     /\ world' = after
     /\ DeadEnd(k, after, CorridorAhead.x, CorridorAhead.y)

(* C37: dead-end exhaustion, as stated.  From the first cell of a closed   *)
(* corridor of length 3, while the human does not collide, the computer    *)
(* advances one cell in each of the next two steps without an outcome, and *)
(* the third step reports "You win!".                                      *)
C37_AsStated ==
  /\ [][ (InCorridor(2) /\ HumanMoves) => AdvancesTo(1) ]_vars
  /\ [][ (InCorridor(1) /\ HumanMoves) => AdvancesTo(0) ]_vars
  /\ [][ InCorridor(0) => winner' = "You win!" ]_vars

(* C37, amended: the same while the human neither collides nor moves into  *)
(* the corridor; the third step always reports an outcome, "You win!" if   *)
(* the human's own move is free and Draw if the human collides in it.      *)
C37_Exhaustion ==
  /\ [][ (InCorridor(2) /\ HumanOpen /\ ~HumanIntrudes) => AdvancesTo(1) ]_vars
  /\ [][ (InCorridor(1) /\ HumanOpen /\ ~HumanIntrudes) => AdvancesTo(0) ]_vars
  /\ [][ InCorridor(0) =>
           winner' = (IF HumanOpen THEN "You win!" ELSE "Draw") ]_vars

(* the computer has run three cells straight to the end of a dead end and  *)
(* the step after that has given the match to the human                    *)
C37_Witness ==
  /\ winner = "You win!"
  /\ FreeAround(p2.x, p2.y) = {}
  /\ {<<p2.x - k * p2.dir[1], p2.y - k * p2.dir[2]>> : k \in 0..3} \subseteq held2
  /\ HumanOpen

(* cell (x, y) lies on the grid; the candidate cells of the step *)
OnGrid(x, y) == x >= 0 /\ x <= cols - 1 /\ y >= 0 /\ y <= rows - 1
ComputerOpts == {d \in Candidates(p2.dir) : OnGrid(p2.x + d[1], p2.y + d[2])}
(* the queue floodScore has filled when called for cell (x, y): every      *)
(* entry is a cell of the grid, no cell is entered twice, and so the queue *)
(* never outgrows its cols*rows slots                                      *)
QueueSafe(x, y) ==
  LET q == floodRun(x, y, world, cols, rows).q
  IN /\ \A i \in DOMAIN q : OnGrid(q[i][1], q[i][2])
     /\ Cardinality({q[i] : i \in DOMAIN q}) = Len(q)
     /\ Len(q) <= cols * rows

(* C38: index safety.  Both heads are always on the grid.  A step reads    *)
(* and writes the grid only at cells of the grid: a candidate cell off the *)
(* grid counts as a collision whatever the cell its index would alias      *)
(* holds, the cells a step marks are the two new head cells, and every     *)
(* flood the AI starts from a candidate cell enqueues cells of the grid,   *)
(* each at most once.                                                      *)
C38_IndexSafety ==
  /\ [](OnGrid(p1.x, p1.y) /\ OnGrid(p2.x, p2.y))
  /\ [][ Stepping =>
           /\ ~OnGrid(HumanTargetX, HumanTargetY) => (winner' \in {"Computer wins", "Draw"} /\ world' = world)
           /\ ~OnGrid(ComputerTargetX, ComputerTargetY) => (winner' \in {"You win!", "Draw"} /\ world' = world)
           /\ world' # world =>
                /\ OnGrid(HumanTargetX, HumanTargetY) /\ OnGrid(ComputerTargetX, ComputerTargetY)
                /\ world' = [world EXCEPT ![HumanTargetY * cols + HumanTargetX] = 1,
                                           ![ComputerTargetY * cols + ComputerTargetX] = 2] ]_vars
  /\ [](Stepping => \A d \in ComputerOpts :
                       world[(p2.y + d[2]) * cols + p2.x + d[1]] = 0
                         => QueueSafe(p2.x + d[1], p2.y + d[2]))

(* a step has ended the match because the human's candidate cell was off   *)
(* the grid to the left, while the cell its index would alias, the last    *)
(* cell of the row above, was free                                         *)
C38_Witness ==
  /\ winner = "Computer wins"
  /\ HumanTargetX = -1
  /\ HumanTargetY >= 1
  /\ world[HumanTargetY * cols + HumanTargetX] = 0

=============================================================================
